---- MODULE Spec2Model ----
(***************************************************************************)
(* The XCom exchange store of airflow/orm/xcom.py: the xcom table, the     *)
(* classmethods set / get_one / get_many / delete, the reconstructor       *)
(* init_on_load, and the pickle / JSON serialization they choose from the  *)
(* configuration flag core.enable_xcom_pickling.                           *)
(*                                                                         *)
(* store is the committed content of the table.  A call of set is two      *)
(* steps, one per session.commit(); the other calls commit at most once    *)
(* and are one step each.                                                  *)
(***************************************************************************)
EXTENDS Integers, Sequences, FiniteSets, TLC

\* ------------------------------------------------------------------ bounds
NumWorkers == 2
MaxId == 3
MaxTime == 2
MaxBatch == 2
MaxRows == 2
MaxLimit == 3
MaxDate == 2

Workers == 1..NumWorkers
Times == 1..MaxTime
Dates == 1..MaxDate
Keys == {"a", "b"}
Tasks == {"t1", "t2"}
Dags == {"d1", "d2"}

\* ------------------------------------------------------- python values
\* A python object is its type and its content.
Obj(t, r) == [type |-> t, repr |-> r]

None == Obj("NoneType", "None")

Dict1 == Obj("dict", "x: 1")

Dict2 == Obj("dict", "x: 2")

List12 == Obj("list", "1, 2")

Tuple12 == Obj("tuple", "1, 2")

Object == Obj("object", "object()")

Return(v) == [kind |-> "return", val |-> v]

Raise(e) == [kind |-> "raise", val |-> Obj(e, "")]

\* The serialized payload (the LargeBinary column): the format of the bytes
\* and the document they hold.
Bytes(f, t, r) == [fmt |-> f, type |-> t, repr |-> r]

\* pickle.dumps: represents the object graph as it is.
pickle_dumps(value) == Return(Bytes("pickle", value.type, value.repr))

\* pickle.loads: bytes that are no pickle stream (JSON text) do not load.
pickle_loads(b) ==
    IF b.fmt = "pickle" THEN Return(Obj(b.type, b.repr))
    ELSE Raise("UnpicklingError")

JsonTypes == {"dict", "list", "tuple", "str", "int"}

\* json.dumps(value).encode('UTF-8'): a tuple is written as an array; an
\* object outside the JSON data model raises TypeError.
json_dumps(value) ==
    IF value.type \in JsonTypes
    THEN Return(Bytes("json", IF value.type = "tuple" THEN "list" ELSE value.type,
                      value.repr))
    ELSE Raise("TypeError")

\* json.loads(b.decode('UTF-8')): a pickle stream is no UTF-8 JSON text
\* (UnicodeDecodeError and JSONDecodeError are both ValueError).
json_loads(b) ==
    IF b.fmt = "json" THEN Return(Obj(b.type, b.repr))
    ELSE Raise("ValueError")

\* ------------------------------------------------------------ arguments
\* An optional argument: None, a string, or a collection of strings.
NoneArg == [tag |-> "none", s |-> "", xs |-> <<>>]

Str(s) == [tag |-> "str", s |-> s, xs |-> <<>>]

Lst(xs) == [tag |-> "list", s |-> "", xs |-> xs]

\* python truthiness, as in `if key:` / `if task_ids:`
Truthy(a) == \/ a.tag = "str" /\ a.s # ""
             \/ a.tag = "list" /\ a.xs # <<>>

\* airflow.utils.helpers.as_tuple
as_tuple(a) == IF a.tag = "list" THEN a.xs ELSE <<a.s>>

Range(seq) == {seq[i] : i \in DOMAIN seq}

Min(a, b) == IF a <= b THEN a ELSE b

\* -------------------------------------------------------------- state
VARIABLES
    store,            \* the committed rows of table xcom
    next_id,          \* the primary key the next INSERT gets
    enable_pickling,  \* configuration core.enable_xcom_pickling
    pc,               \* per worker: "idle", or "insert" between set's two commits
    locals,           \* per worker: the locals of its set call in progress
    staged,           \* per worker: ids marked by session.delete in the session
                      \* the caller supplies, not yet committed
    last              \* per worker: its most recent completed call

vars == <<store, next_id, enable_pickling, pc, locals, staged, last>>

\* class XCom(Base): one row of the table
XCom(id, key, value, timestamp, execution_date, task_id, dag_id) ==
    [id |-> id, key |-> key, value |-> value, timestamp |-> timestamp,
     execution_date |-> execution_date, task_id |-> task_id, dag_id |-> dag_id]

NoLocals == [key |-> "", value |-> Bytes("", "", ""), execution_date |-> 0,
             task_id |-> "", dag_id |-> "", arg |-> None, pickling |-> FALSE,
             deleted |-> 0]

NoArgs == [none |-> TRUE]

\* A completed call: its arguments, the rows its query fetched, the objects
\* loaded from them, and what it returned or raised.
Call(op, args, rows, ret) ==
    [op |-> op, args |-> args, rows |-> rows, results |-> <<>>, ret |-> ret]

NoCall == Call("none", NoArgs, <<>>, Return(None))

Init ==
    /\ store = {}
    /\ next_id = 1
    /\ enable_pickling \in BOOLEAN
    /\ pc = [w \in Workers |-> "idle"]
    /\ locals = [w \in Workers |-> NoLocals]
    /\ staged = [w \in Workers |-> {}]
    /\ last = [w \in Workers |-> NoCall]

\* ---------------------------------------------------------------- set
\* Mutant of serialize: the flag is ignored and the value is always written
\* as JSON.
serialize_json_only(pickling, value) == json_dumps(value)

\* lines 82-94: the encode step of set
serialize(pickling, value) ==
    IF pickling THEN pickle_dumps(value) ELSE json_dumps(value)

\* Mutant of duplicates: the key column is compared with task_id.
duplicates_wrong_column(rows, key, execution_date, task_id, dag_id) ==
    {x \in rows : /\ x.key = task_id
                  /\ x.execution_date = execution_date
                  /\ x.task_id = task_id
                  /\ x.dag_id = dag_id}

\* Mutant of duplicates: the execution_date is left out of the filter.
duplicates_any_date(rows, key, execution_date, task_id, dag_id) ==
    {x \in rows : /\ x.key = key
                  /\ x.task_id = task_id
                  /\ x.dag_id = dag_id}

\* lines 97-101: the rows the dedup DELETE matches
duplicates(rows, key, execution_date, task_id, dag_id) ==
    {x \in rows : /\ x.key = key
                  /\ x.execution_date = execution_date
                  /\ x.task_id = task_id
                  /\ x.dag_id = dag_id}

\* The arguments of a set call, with what it read and did: the flag it read at
\* line 82 and the number of rows its DELETE removed.
SetArgs(key, value, execution_date, task_id, dag_id, pickling, deleted) ==
    [key |-> key, value |-> value, execution_date |-> execution_date,
     task_id |-> task_id, dag_id |-> dag_id, pickling |-> pickling,
     deleted |-> deleted]

\* Mutant of set: the duplicates are not deleted.
set_without_delete(w, key, value, execution_date, task_id, dag_id, own) ==
    /\ pc[w] = "idle"
    /\ next_id + Cardinality({u \in Workers : pc[u] = "insert"}) <= MaxId
    /\ staged' = IF own THEN staged ELSE [staged EXCEPT ![w] = {}]
    /\ LET enc == IF enable_pickling THEN pickle_dumps(value) ELSE json_dumps(value)
       IN IF enc.kind = "raise"
          THEN /\ last' = [last EXCEPT ![w] =
                             Call("set", SetArgs(key, value, execution_date, task_id,
                                                 dag_id, enable_pickling, 0),
                                  <<>>, enc)]
               /\ UNCHANGED <<pc, locals>>
          ELSE /\ pc' = [pc EXCEPT ![w] = "insert"]
               /\ locals' = [locals EXCEPT ![w] =
                               [key |-> key, value |-> enc.val,
                                execution_date |-> execution_date,
                                task_id |-> task_id, dag_id |-> dag_id,
                                arg |-> value, pickling |-> enable_pickling,
                                deleted |-> 0]]
               /\ UNCHANGED last
    /\ UNCHANGED <<store, next_id, enable_pickling>>

\* Mutant of set: the DELETE is committed before the value is encoded.
set_encode_late(w, key, value, execution_date, task_id, dag_id, own) ==
    /\ pc[w] = "idle"
    /\ next_id + Cardinality({u \in Workers : pc[u] = "insert"}) <= MaxId
    /\ staged' = IF own THEN staged ELSE [staged EXCEPT ![w] = {}]
    /\ LET enc == IF enable_pickling THEN pickle_dumps(value) ELSE json_dumps(value)
           dup == {x \in store : /\ x.key = key
                                 /\ x.execution_date = execution_date
                                 /\ x.task_id = task_id
                                 /\ x.dag_id = dag_id}
       IN /\ store' = store \ dup
          /\ IF enc.kind = "raise"
             THEN /\ last' = [last EXCEPT ![w] =
                                Call("set", SetArgs(key, value, execution_date, task_id,
                                                    dag_id, enable_pickling,
                                                    Cardinality(dup)),
                                     <<>>, enc)]
                  /\ UNCHANGED <<pc, locals>>
             ELSE /\ pc' = [pc EXCEPT ![w] = "insert"]
                  /\ locals' = [locals EXCEPT ![w] =
                                  [key |-> key, value |-> enc.val,
                                   execution_date |-> execution_date,
                                   task_id |-> task_id, dag_id |-> dag_id,
                                   arg |-> value, pickling |-> enable_pickling,
                                   deleted |-> Cardinality(dup)]]
                  /\ UNCHANGED last
    /\ UNCHANGED <<next_id, enable_pickling>>

\* set, lines 80-103: expunge_all, encode, DELETE the duplicates, commit.
\* own: the session is created for the call (provide_session) rather than
\* supplied by the caller.
set(w, key, value, execution_date, task_id, dag_id, own) ==
    /\ pc[w] = "idle"
    /\ next_id + Cardinality({u \in Workers : pc[u] = "insert"}) <= MaxId
    /\ staged' = IF own THEN staged ELSE [staged EXCEPT ![w] = {}]
    /\ LET enc == serialize(enable_pickling, value)
           dup == duplicates(store, key, execution_date, task_id, dag_id)
       IN IF enc.kind = "raise"
          THEN /\ last' = [last EXCEPT ![w] =
                             Call("set", SetArgs(key, value, execution_date, task_id,
                                                      dag_id, enable_pickling, 0),
                                  <<>>, enc)]
               /\ UNCHANGED <<store, pc, locals>>
          ELSE /\ store' = store \ dup
               /\ pc' = [pc EXCEPT ![w] = "insert"]
               /\ locals' = [locals EXCEPT ![w] =
                               [key |-> key, value |-> enc.val,
                                execution_date |-> execution_date,
                                task_id |-> task_id, dag_id |-> dag_id,
                                arg |-> value, pickling |-> enable_pickling,
                                deleted |-> Cardinality(dup)]]
               /\ UNCHANGED last
    /\ UNCHANGED <<next_id, enable_pickling>>

SetDone(w, ret) ==
    /\ pc' = [pc EXCEPT ![w] = "idle"]
    /\ locals' = [locals EXCEPT ![w] = NoLocals]
    /\ last' = [last EXCEPT ![w] =
                  Call("set",
                       SetArgs(locals[w].key, locals[w].arg, locals[w].execution_date,
                               locals[w].task_id, locals[w].dag_id, locals[w].pickling,
                               locals[w].deleted),
                       <<>>, ret)]

\* Mutant of set_insert: the INSERT replaces the rows with its natural key.
set_insert_replacing(w, now) ==
    /\ pc[w] = "insert"
    /\ store' = {x \in store : \/ x.key # locals[w].key
                               \/ x.execution_date # locals[w].execution_date
                               \/ x.task_id # locals[w].task_id
                               \/ x.dag_id # locals[w].dag_id}
                \cup {XCom(next_id, locals[w].key, locals[w].value, now,
                           locals[w].execution_date, locals[w].task_id,
                           locals[w].dag_id)}
    /\ next_id' = next_id + 1
    /\ SetDone(w, Return(None))
    /\ UNCHANGED <<enable_pickling, staged>>

\* Mutant of set_insert: the dedup DELETE runs after the INSERT and removes
\* the new row with the others.
set_insert_before_delete(w, now) ==
    /\ pc[w] = "insert"
    /\ store' = {x \in store : \/ x.key # locals[w].key
                               \/ x.execution_date # locals[w].execution_date
                               \/ x.task_id # locals[w].task_id
                               \/ x.dag_id # locals[w].dag_id}
    /\ next_id' = next_id + 1
    /\ SetDone(w, Return(None))
    /\ UNCHANGED <<enable_pickling, staged>>

\* set, lines 105-113: INSERT the new row (id from the table's sequence,
\* timestamp from timezone.utcnow), commit.
set_insert(w, now) ==
    /\ pc[w] = "insert"
    /\ store' = store \cup {XCom(next_id, locals[w].key, locals[w].value, now,
                                 locals[w].execution_date, locals[w].task_id,
                                 locals[w].dag_id)}
    /\ next_id' = next_id + 1
    /\ SetDone(w, Return(None))
    /\ UNCHANGED <<enable_pickling, staged>>

\* Mutant of set_fail: the failure is raised after the row was inserted.
set_fail_after_insert(w) ==
    /\ pc[w] = "insert"
    /\ store' = store \cup {XCom(next_id, locals[w].key, locals[w].value, 1,
                                 locals[w].execution_date, locals[w].task_id,
                                 locals[w].dag_id)}
    /\ next_id' = next_id + 1
    /\ SetDone(w, Raise("OperationalError"))
    /\ UNCHANGED <<enable_pickling, staged>>

\* set, lines 105-113: the storage layer fails after the DELETE was committed;
\* the exception leaves set with nothing inserted.
set_fail(w) ==
    /\ pc[w] = "insert"
    /\ SetDone(w, Raise("OperationalError"))
    /\ UNCHANGED <<store, next_id, enable_pickling, staged>>

\* configuration.getboolean('core', 'enable_xcom_pickling') is read at each
\* call; the operator changes the setting between calls.
configure(b) ==
    /\ enable_pickling # b
    /\ enable_pickling' = b
    /\ UNCHANGED <<store, next_id, pc, locals, staged, last>>


\* ------------------------------------------------------------- queries
\* Mutant of precedes: the timestamp is ordered ascending.
precedes_timestamp_asc(x, y) ==
    \/ x.execution_date > y.execution_date
    \/ x.execution_date = y.execution_date /\ x.timestamp < y.timestamp

\* .order_by(cls.execution_date.desc(), cls.timestamp.desc()): x sorts
\* strictly before y
precedes(x, y) ==
    \/ x.execution_date > y.execution_date
    \/ x.execution_date = y.execution_date /\ x.timestamp > y.timestamp

Orderings(S) ==
    {s \in [1..Cardinality(S) -> S] : \A i, j \in DOMAIN s : i # j => s[i] # s[j]}

\* The orders the database may return the rows in: rows that tie on both
\* columns come in any order.
order_by(rows) ==
    {s \in Orderings(rows) :
        \A i, j \in DOMAIN s : i < j => ~precedes(s[j], s[i])}

\* Mutant of get_one_filters: include_prior_dates compares with < .
get_one_filters_strict(x, execution_date, key, task_id, dag_id, include_prior_dates) ==
    /\ Truthy(key) => x.key = key.s
    /\ Truthy(task_id) => x.task_id = task_id.s
    /\ Truthy(dag_id) => x.dag_id = dag_id.s
    /\ IF include_prior_dates
       THEN x.execution_date < execution_date
       ELSE x.execution_date = execution_date

\* get_one, lines 130-140
get_one_filters(x, execution_date, key, task_id, dag_id, include_prior_dates) ==
    /\ Truthy(key) => x.key = key.s
    /\ Truthy(task_id) => x.task_id = task_id.s
    /\ Truthy(dag_id) => x.dag_id = dag_id.s
    /\ IF include_prior_dates
       THEN x.execution_date <= execution_date
       ELSE x.execution_date = execution_date

\* Mutant of get_one_decode: a failing JSON decode falls back to pickle.
get_one_decode_fallback(pickling, b) ==
    IF pickling THEN pickle_loads(b)
    ELSE IF json_loads(b).kind = "raise" THEN pickle_loads(b) ELSE json_loads(b)

\* get_one, lines 147-160: decode the fetched value; a failing JSON decode
\* is logged and raised again.
get_one_decode(pickling, b) ==
    IF pickling THEN pickle_loads(b) ELSE json_loads(b)

GetOneArgs(execution_date, key, task_id, dag_id, include_prior_dates) ==
    [execution_date |-> execution_date, key |-> key, task_id |-> task_id,
     dag_id |-> dag_id, include_prior_dates |-> include_prior_dates]

\* get_one, lines 130-160: query.first() is the head of the ordered matches.
get_one(w, execution_date, key, task_id, dag_id, include_prior_dates) ==
    /\ pc[w] = "idle"
    /\ LET args == GetOneArgs(execution_date, key, task_id, dag_id, include_prior_dates)
           match == {x \in store : get_one_filters(x, execution_date, key, task_id,
                                                   dag_id, include_prior_dates)}
       IN \E s \in order_by(match) :
            last' = [last EXCEPT ![w] =
                       IF s = <<>>
                       THEN Call("get_one", args, <<>>, Return(None))
                       ELSE Call("get_one", args, <<s[1]>>,
                                 get_one_decode(enable_pickling, s[1].value))]
    /\ UNCHANGED <<store, next_id, enable_pickling, pc, locals, staged>>

\* Mutant of get_many_filters: the filters are joined with or_.
get_many_filters_or(x, execution_date, key, task_ids, dag_ids, include_prior_dates) ==
    \/ Truthy(key) /\ x.key = key.s
    \/ Truthy(task_ids) /\ x.task_id \in Range(as_tuple(task_ids))
    \/ Truthy(dag_ids) /\ x.dag_id \in Range(as_tuple(dag_ids))
    \/ IF include_prior_dates
       THEN x.execution_date <= execution_date
       ELSE x.execution_date = execution_date

\* get_many, lines 177-187
get_many_filters(x, execution_date, key, task_ids, dag_ids, include_prior_dates) ==
    /\ Truthy(key) => x.key = key.s
    /\ Truthy(task_ids) => x.task_id \in Range(as_tuple(task_ids))
    /\ Truthy(dag_ids) => x.dag_id \in Range(as_tuple(dag_ids))
    /\ IF include_prior_dates
       THEN x.execution_date <= execution_date
       ELSE x.execution_date = execution_date

\* Mutant of limit_rows: the limit is taken exclusive.
limit_rows_exclusive(s, limit) == SubSeq(s, 1, Min(limit, Len(s)) - 1)

\* Mutant of limit_rows: a limit of zero is read as no limit.
limit_rows_zero_unlimited(s, limit) ==
    IF limit = 0 THEN s ELSE SubSeq(s, 1, Min(limit, Len(s)))

\* .limit(limit), line 192, for a limit the backend accepts
limit_rows(s, limit) == SubSeq(s, 1, Min(limit, Len(s)))

\* Mutant of init_on_load: no fallback to pickle when the JSON decode fails.
init_on_load_no_fallback(pickling, b) ==
    IF pickling THEN pickle_loads(b) ELSE json_loads(b)

\* Mutant of Loaded: the object carries the bytes of the row.
Loaded_raw(pickling, x) == x

\* init_on_load, lines 44-56: the value a loaded XCom object carries
init_on_load(pickling, b) ==
    IF pickling THEN pickle_loads(b)
    ELSE IF json_loads(b).kind = "raise" THEN pickle_loads(b) ELSE json_loads(b)

\* The XCom object the ORM builds from a row: init_on_load has replaced value.
Loaded(pickling, x) == [x EXCEPT !.value = init_on_load(pickling, x.value).val]

GetManyArgs(execution_date, key, task_ids, dag_ids, include_prior_dates, limit) ==
    [execution_date |-> execution_date, key |-> key, task_ids |-> task_ids,
     dag_ids |-> dag_ids, include_prior_dates |-> include_prior_dates,
     limit |-> limit]

\* get_many, lines 177-194.  A negative LIMIT is backend specific: SQLite reads
\* it as no limit, PostgreSQL and MySQL reject the statement.  query.all()
\* builds an XCom object per row, running init_on_load on each.
get_many(w, execution_date, key, task_ids, dag_ids, include_prior_dates, limit) ==
    /\ pc[w] = "idle"
    /\ LET args == GetManyArgs(execution_date, key, task_ids, dag_ids,
                               include_prior_dates, limit)
           match == {x \in store : get_many_filters(x, execution_date, key, task_ids,
                                                    dag_ids, include_prior_dates)}
       IN \E s \in order_by(match), sqlite \in BOOLEAN :
            /\ limit >= 0 => sqlite
            /\ LET rows == IF limit >= 0 THEN limit_rows(s, limit) ELSE s
                   bad == {i \in DOMAIN rows :
                             init_on_load(enable_pickling, rows[i].value).kind = "raise"}
               IN last' = [last EXCEPT ![w] =
                    IF ~sqlite
                    THEN Call("get_many", args, <<>>, Raise("DataError"))
                    ELSE IF bad # {}
                    THEN Call("get_many", args, rows, Raise("UnpicklingError"))
                    ELSE [Call("get_many", args, rows, Return(Obj("list", "results")))
                            EXCEPT !.results =
                              [i \in DOMAIN rows |-> Loaded(enable_pickling, rows[i])]]]
    /\ UNCHANGED <<store, next_id, enable_pickling, pc, locals, staged>>

\* -------------------------------------------------------------- delete
\* An argument of delete: an XCom object (known by its primary key), some
\* other object, or a collection of these.
Elem(id) == [tag |-> "XCom", id |-> id, items |-> <<>>]

NotARecord == [tag |-> "str", id |-> 0, items |-> <<>>]

Coll(items) == [tag |-> "list", id |-> 0, items |-> items]

\* delete, lines 199-200
as_list(xcoms) == IF xcoms.tag = "XCom" THEN <<xcoms>> ELSE xcoms.items

\* delete, lines 201-205: the elements that are no XCom
offending(items) == {i \in DOMAIN items : items[i].tag # "XCom"}

\* delete, lines 201-206: the ids session.delete() has marked when the loop
\* ends, by exhaustion or by the raise at the first offending element.
marked(items) ==
    {items[i].id : i \in {j \in DOMAIN items : \A k \in offending(items) : j < k}}

DeleteArgs(xcoms, own) == [xcoms |-> xcoms, own |-> own]

\* delete, lines 198-207.  With own the session is provide_session's: it is
\* rolled back when the call raises.  Otherwise the session is the caller's:
\* what the loop marked stays in it, and line 207 commits all it holds.
delete(w, xcoms, own) ==
    /\ pc[w] = "idle"
    /\ LET items == as_list(xcoms)
           raised == offending(items) # {}
           ids == IF own THEN marked(items) ELSE staged[w] \cup marked(items)
       IN /\ store' = IF raised THEN store ELSE {x \in store : x.id \notin ids}
          /\ staged' = IF own THEN staged
                       ELSE [staged EXCEPT ![w] = IF raised THEN ids ELSE {}]
          /\ last' = [last EXCEPT ![w] =
                        Call("delete", DeleteArgs(xcoms, own), <<>>,
                             IF raised THEN Raise("TypeError") ELSE Return(None))]
    /\ UNCHANGED <<next_id, enable_pickling, pc, locals>>

\* The caller commits the session it supplied: the marked rows are deleted.
session_commit(w) ==
    /\ pc[w] = "idle"
    /\ staged[w] # {}
    /\ store' = {x \in store : x.id \notin staged[w]}
    /\ staged' = [staged EXCEPT ![w] = {}]
    /\ UNCHANGED <<next_id, enable_pickling, pc, locals, last>>

\* The caller rolls the session it supplied back.
session_rollback(w) ==
    /\ pc[w] = "idle"
    /\ staged[w] # {}
    /\ staged' = [staged EXCEPT ![w] = {}]
    /\ UNCHANGED <<store, next_id, enable_pickling, pc, locals, last>>


\* ------------------------------------------------------- specifications
\* The natural keys (key, execution_date, task_id, dag_id) the callers use.
NaturalKeys == Keys \X Dates \X Tasks \X Dags

\* One natural key and the four that differ from it in one coordinate.
StarKeys == {<<"a", 1, "t1", "d1">>, <<"b", 1, "t1", "d1">>, <<"a", 2, "t1", "d1">>,
             <<"a", 1, "t2", "d1">>, <<"a", 1, "t1", "d2">>}

\* The arguments delete is called with: a row of the table, or a collection
\* of at most MaxBatch rows and other objects.
Batches ==
    LET E == {Elem(x.id) : x \in store} \cup {NotARecord}
    IN {Elem(x.id) : x \in store}
       \cup {Coll(s) : s \in UNION {[1..n -> E] : n \in 1..MaxBatch}}

\* Workers calling set and delete concurrently, each with a session of its own.
Next ==
    \E w \in Workers :
        \/ \E k \in StarKeys : set(w, k[1], Dict1, k[2], k[3], k[4], TRUE)
        \/ set_insert(w, 1)
        \/ set_fail(w)
        \/ \E xs \in Batches : delete(w, xs, TRUE)

Spec == Init /\ [][Next]_vars

\* One caller: calls follow one another, and the configuration may change
\* between them.
SeqKeys == {<<"a", 1, "t1", "d1">>, <<"b", 1, "t1", "d1">>, <<"a", 2, "t1", "d1">>}

NextSeq ==
    \/ \E k \in SeqKeys, v \in {Dict1, Tuple12, Object} :
          set(1, k[1], v, k[2], k[3], k[4], TRUE)
    \/ set_insert(1, 1)
    \/ set_fail(1)
    \/ \E k \in SeqKeys : get_one(1, k[2], Str(k[1]), Str(k[3]), Str(k[4]), FALSE)
    \/ \E b \in BOOLEAN : configure(b)

SpecSeq == Init /\ [][NextSeq]_vars

\* One caller that writes rows and deletes them, with the session created
\* for each call or with one session of its own that it commits or rolls
\* back later.
NextSession ==
    \/ \E k \in SeqKeys, own \in BOOLEAN : set(1, k[1], Dict1, k[2], k[3], k[4], own)
    \/ set_insert(1, 1)
    \/ \E xs \in Batches, own \in BOOLEAN : delete(1, xs, own)
    \/ session_commit(1)
    \/ session_rollback(1)

SpecSession == Init /\ [][NextSession]_vars

\* The value worker w writes: its own number, so that a row tells which
\* worker's call inserted it.
ValueOf(w) == Obj("int", ToString(w))

WriterKeys == {<<"a", 1, "t1", "d1">>, <<"b", 1, "t1", "d1">>}

\* Workers calling set concurrently, one call at a time each, no step failing.
NextWriters ==
    \E w \in Workers :
        \/ \E k \in WriterKeys : set(w, k[1], ValueOf(w), k[2], k[3], k[4], TRUE)
        \/ set_insert(w, 1)

SpecWriters == Init /\ [][NextWriters]_vars

\* One caller that writes rows under a configuration that changes between
\* the calls, and lists the table with get_many.
NextLoad ==
    \/ \E k \in SeqKeys, v \in {Dict1, Tuple12} :
          set(1, k[1], v, k[2], k[3], k[4], TRUE)
    \/ set_insert(1, 1)
    \/ \E b \in BOOLEAN : configure(b)
    \/ \E key \in {NoneArg, Str("a")} :
          get_many(1, 2, key, NoneArg, NoneArg, TRUE, MaxId)

SpecLoad == Init /\ [][NextLoad]_vars

\* A table written under the configuration in force, and one query on it.
\* The rows hold any natural keys and timestamps, ids in insertion order.
Contents == NaturalKeys \X Times

ReadStores(pickling) ==
    {{XCom(i, f[i][1][1], serialize(pickling, Dict1).val, f[i][2], f[i][1][2],
           f[i][1][3], f[i][1][4]) : i \in DOMAIN f} :
        f \in UNION {[1..n -> Contents] : n \in 0..MaxRows}}

InitRead ==
    /\ enable_pickling \in BOOLEAN
    /\ store \in ReadStores(enable_pickling)
    /\ next_id = Cardinality(store) + 1
    /\ pc = [w \in Workers |-> "idle"]
    /\ locals = [w \in Workers |-> NoLocals]
    /\ staged = [w \in Workers |-> {}]
    /\ last = [w \in Workers |-> NoCall]

Limits == (-1)..MaxLimit

NextRead ==
    /\ last[1].op = "none"
    /\ \/ \E e \in Dates, key \in {NoneArg, Str(""), Str("a")},
             task_id \in {NoneArg, Str(""), Str("t1")},
             dag_id \in {NoneArg, Str(""), Str("d1")}, prior \in BOOLEAN :
               get_one(1, e, key, task_id, dag_id, prior)
       \/ \E e \in Dates, key \in {NoneArg, Str(""), Str("a")},
             task_ids \in {NoneArg, Str("t1"), Lst(<<>>), Lst(<<"t1", "t2">>)},
             dag_ids \in {NoneArg, Str("d1"), Lst(<<>>), Lst(<<"d2">>)},
             prior \in BOOLEAN, limit \in Limits :
               get_many(1, e, key, task_ids, dag_ids, prior, limit)

SpecRead == InitRead /\ [][NextRead]_vars

\* =================================================================== claims
\* The natural key of a row, and of the arguments of a set or get_one call.
NaturalKey(x) == <<x.key, x.execution_date, x.task_id, x.dag_id>>

Live(rows, k) == {x \in rows : NaturalKey(x) = k}

\* get_one called with all four coordinates and the exact execution date.
ExactCall(c) ==
    /\ c.op = "get_one"
    /\ c.args.key.tag = "str" /\ c.args.task_id.tag = "str" /\ c.args.dag_id.tag = "str"
    /\ ~c.args.include_prior_dates

ExactKey(c) == <<c.args.key.s, c.args.execution_date, c.args.task_id.s, c.args.dag_id.s>>

\* Worker w completes a call in this step.
Completes(w, op) == last'[w] # last[w] /\ last'[w].op = op

\* Worker w's set call commits its INSERT in this step.
Inserts(w) ==
    /\ pc[w] = "insert" /\ pc'[w] = "idle"
    /\ last'[w].op = "set" /\ last'[w].ret = Return(None)

\* What a JSON document holds of a value: a tuple becomes a list.
JsonImage(v) == IF v.type = "tuple" THEN Obj("list", v.repr) ELSE v

\* A set call that completed and the get_one call, with the same coordinates,
\* that follows it under the configuration the set call ran under.
ReadsBack ==
    /\ pc[1] = "idle" /\ last[1].op = "set" /\ last[1].ret = Return(None)
    /\ Completes(1, "get_one") /\ ExactCall(last'[1])
    /\ ExactKey(last'[1]) = NaturalKey(last[1].args)
    /\ enable_pickling = last[1].args.pickling

\* C1 as stated: in a sequence of calls, a set call that completes leaves
\* exactly one row with its natural key, and get_one with the exact
\* coordinates then returns the value that set call was given.
C1_Original ==
    [][/\ Inserts(1) => Cardinality(Live(store', NaturalKey(last'[1].args))) = 1
       /\ ReadsBack => last'[1].ret = Return(last[1].args.value)]_vars

\* C1, amended: in a sequence of calls, a set call that completes leaves
\* exactly one row with its natural key, and get_one with the exact
\* coordinates then returns the value that set call was given as its encoding
\* holds it: the value itself under pickling, its JSON image (a tuple comes
\* back as a list) otherwise.
C1_DedupOnWrite ==
    [][/\ Inserts(1) => Cardinality(Live(store', NaturalKey(last'[1].args))) = 1
       /\ ReadsBack =>
            last'[1].ret = Return(IF enable_pickling THEN last[1].args.value
                                  ELSE JsonImage(last[1].args.value))]_vars

\* Two set calls with one natural key have completed (the first row is gone,
\* the second is the only one) and get_one has returned the second value.
C1_Witness ==
    /\ last[1].op = "get_one" /\ ExactCall(last[1])
    /\ last[1].ret = Return(Dict1)
    /\ Len(last[1].rows) = 1 /\ last[1].rows[1].id = 2
    /\ Cardinality(store) = 1 /\ next_id = 3

\* C2 as stated: get_one, in non-legacy mode, returns the value of a row
\* written under pickling.
C2_Original ==
    [][(/\ Completes(1, "get_one") /\ ~enable_pickling
        /\ last'[1].rows # <<>> /\ last'[1].rows[1].value.fmt = "pickle")
       => last'[1].ret = Return(Obj(last'[1].rows[1].value.type,
                                    last'[1].rows[1].value.repr))]_vars

\* C2, amended: get_one has no fallback to pickle: in non-legacy mode, on a
\* row written under pickling, the JSON decode fails and get_one raises the
\* ValueError; under pickling it returns the value of such a row.
C2_NoFallbackInGetOne ==
    [][(/\ Completes(1, "get_one")
        /\ last'[1].rows # <<>> /\ last'[1].rows[1].value.fmt = "pickle")
       => last'[1].ret = IF enable_pickling
                         THEN Return(Obj(last'[1].rows[1].value.type,
                                         last'[1].rows[1].value.repr))
                         ELSE Raise("ValueError")]_vars

\* get_one has raised on a row written under pickling, the flag being off.
C2_Witness ==
    /\ last[1].op = "get_one" /\ last[1].ret = Raise("ValueError")
    /\ last[1].rows # <<>> /\ last[1].rows[1].value.fmt = "pickle"
    /\ ~enable_pickling

\* C3: a delete call that raises TypeError removes no row: not in the call,
\* and not afterwards when the caller commits the session it supplied.
C3_NoDeletionOnTypeError ==
    [][/\ (Completes(1, "delete") /\ last'[1].ret = Raise("TypeError")) => store' = store
       /\ (/\ last[1].op = "delete" /\ last[1].ret = Raise("TypeError")
           /\ last'[1] = last[1] /\ pc[1] = "idle" /\ pc'[1] = "idle")
          => store' = store]_vars

\* C4: a set call in non-legacy mode with a value JSON cannot hold raises
\* TypeError from the encode step and leaves the table as it was; no set call
\* gets past the encode step with such a value.
C4_EncodeBeforeMutation ==
    [][/\ (/\ pc[1] = "idle" /\ ~enable_pickling
           /\ Completes(1, "set") /\ last'[1].args.value = Object)
          => (last'[1].ret = Raise("TypeError") /\ store' = store /\ pc'[1] = "idle")
       /\ (pc[1] = "idle" /\ pc'[1] = "insert" /\ ~enable_pickling)
          => locals'[1].arg # Object]_vars

\* set has raised TypeError and a row with the call's natural key is still there.
C4_Witness ==
    /\ last[1].op = "set" /\ last[1].ret = Raise("TypeError")
    /\ last[1].args.value = Object
    /\ Live(store, NaturalKey(last[1].args)) # {}

\* C5: the INSERT of set removes nothing: a writer that commits its INSERT
\* while a row with its natural key is live (another writer's, inserted after
\* this writer's DELETE) leaves two or more live rows with that key, and a
\* writer between its commits stays there while another one inserts.
C5_RaceLeavesDuplicates ==
    [][\A w \in Workers :
          Inserts(w) =>
            /\ \A x \in store : x \in store'
            /\ Cardinality(Live(store', NaturalKey(last'[w].args)))
                 = Cardinality(Live(store, NaturalKey(last'[w].args))) + 1
            /\ \A u \in Workers \ {w} : pc'[u] = pc[u]]_vars

\* Both writers have completed a set call with the same natural key and two
\* rows with that key are live.
C5_Witness ==
    /\ pc[1] = "idle" /\ pc[2] = "idle"
    /\ last[1].op = "set" /\ last[1].ret = Return(None)
    /\ last[2].op = "set" /\ last[2].ret = Return(None)
    /\ NaturalKey(last[1].args) = NaturalKey(last[2].args)
    /\ Cardinality(Live(store, NaturalKey(last[1].args))) = 2

\* C6: with one caller, a set call that fails between its two commits leaves
\* no row with its natural key, get_one with those coordinates returns None
\* while there is none, and a natural key without rows gets one only when a
\* set call with that key commits its INSERT.
C6_FailureLeavesNoRecord ==
    [][/\ (pc[1] = "insert" /\ Completes(1, "set") /\ last'[1].ret.kind = "raise")
          => Live(store', NaturalKey(last'[1].args)) = {}
       /\ (Completes(1, "get_one") /\ ExactCall(last'[1])
           /\ Live(store, ExactKey(last'[1])) = {})
          => last'[1].ret = Return(None)
       /\ \A x \in store' :
            Live(store, NaturalKey(x)) = {}
              => Inserts(1) /\ NaturalKey(last'[1].args) = NaturalKey(x)]_vars

\* A set call replacing a live row has failed after its DELETE: no row with
\* its natural key is left.
C6_Witness ==
    /\ pc[1] = "idle" /\ last[1].op = "set" /\ last[1].ret = Raise("OperationalError")
    /\ last[1].args.deleted = 1
    /\ Live(store, NaturalKey(last[1].args)) = {}

\* ------------------------------------------------------ claims on queries
\* A filter argument is given when it is not None and not empty.
Given(a) == a.tag # "none" /\ a # Str("") /\ a # Lst(<<>>)

\* A filter argument is provided when it is not None.
Provided(a) == a.tag # "none"

\* The identifiers an argument names.
Named(a) == IF a.tag = "str" THEN {a.s} ELSE {a.xs[i] : i \in DOMAIN a.xs}

\* The execution-date filter of call c on row x.
DateMatches(x, c) ==
    IF c.args.include_prior_dates
    THEN x.execution_date <= c.args.execution_date
    ELSE x.execution_date = c.args.execution_date

\* The optional filters of call c on row x; Counts(a) says which arguments
\* are filters.
OptionalMatch(x, c, Counts(_)) ==
    IF c.op = "get_one"
    THEN /\ Counts(c.args.key) => x.key = c.args.key.s
         /\ Counts(c.args.task_id) => x.task_id = c.args.task_id.s
         /\ Counts(c.args.dag_id) => x.dag_id = c.args.dag_id.s
    ELSE /\ Counts(c.args.key) => x.key = c.args.key.s
         /\ Counts(c.args.task_ids) => x.task_id \in Named(c.args.task_ids)
         /\ Counts(c.args.dag_ids) => x.dag_id \in Named(c.args.dag_ids)

\* The rows call c is to choose from: an empty argument is no filter.
Candidates(c) == {x \in store : DateMatches(x, c) /\ OptionalMatch(x, c, Given)}

\* Row x comes before row y: later run, or same run and later write.
SortsBefore(x, y) ==
    \/ x.execution_date > y.execution_date
    \/ x.execution_date = y.execution_date /\ x.timestamp > y.timestamp

\* C7: get_one fetches a row exactly when one matches, and no matching row
\* has a greater execution_date than the fetched one or, with the same
\* execution_date, a greater timestamp.
C7_FirstInOrder ==
    last[1].op = "get_one" =>
        IF Candidates(last[1]) = {} THEN last[1].rows = <<>>
        ELSE /\ Len(last[1].rows) = 1
             /\ last[1].rows[1] \in Candidates(last[1])
             /\ \A y \in Candidates(last[1]) :
                  /\ y.execution_date <= last[1].rows[1].execution_date
                  /\ y.execution_date = last[1].rows[1].execution_date
                       => y.timestamp <= last[1].rows[1].timestamp

\* get_one has chosen between two matching rows of one run by their
\* timestamps: the row written first has the later timestamp and is fetched.
C7_Witness ==
    /\ last[1].op = "get_one" /\ Len(last[1].rows) = 1
    /\ \E y \in Candidates(last[1]) :
          /\ y.execution_date = last[1].rows[1].execution_date
          /\ y.timestamp < last[1].rows[1].timestamp
          /\ y.id > last[1].rows[1].id

\* C8: every row get_one or get_many fetches has the execution_date of the
\* argument, or with include_prior_dates one that is not later; get_one
\* returns None exactly when no row passing the other filters has such a
\* date, and get_many leaves such a row out only when its limit is reached.
C8_ExecutionDateFilter ==
    /\ last[1].op = "get_one" =>
         /\ \A i \in DOMAIN last[1].rows : DateMatches(last[1].rows[i], last[1])
         /\ last[1].rows = <<>> <=>
              ~\E x \in store : DateMatches(x, last[1]) /\ OptionalMatch(x, last[1], Given)
         /\ last[1].rows = <<>> => last[1].ret = Return(None)
    /\ (last[1].op = "get_many" /\ last[1].args.limit >= 0) =>
         /\ last[1].ret.kind = "return"
         /\ \A i \in DOMAIN last[1].rows : DateMatches(last[1].rows[i], last[1])
         /\ Len(last[1].rows) < last[1].args.limit =>
              \A x \in store :
                 (DateMatches(x, last[1]) /\ OptionalMatch(x, last[1], Given))
                    => x \in Range(last[1].rows)

\* get_one without include_prior_dates has returned None although a row of
\* an earlier run passes the other filters, and none of a later run does.
C8_Witness ==
    /\ last[1].op = "get_one" /\ ~last[1].args.include_prior_dates
    /\ last[1].ret = Return(None) /\ last[1].rows = <<>>
    /\ \E x \in store : /\ x.execution_date < last[1].args.execution_date
                        /\ OptionalMatch(x, last[1], Given)

\* C9: with a positive limit L and n matching rows, get_many returns
\* min(L, n) objects, loaded from distinct matching rows, in descending
\* (execution_date, timestamp) order, and no matching row left out comes
\* before a returned one.
C9_LimitTakesFirst ==
    (last[1].op = "get_many" /\ last[1].args.limit > 0) =>
        LET c == last[1]
            n == Cardinality(Candidates(c))
        IN /\ c.ret.kind = "return"
           /\ Len(c.results) = Min(c.args.limit, n)
           /\ Len(c.rows) = Len(c.results)
           /\ \A i \in DOMAIN c.rows :
                /\ c.rows[i] \in Candidates(c)
                /\ c.results[i].id = c.rows[i].id
                /\ \A j \in DOMAIN c.rows :
                     /\ i # j => c.rows[i] # c.rows[j]
                     /\ i < j => ~SortsBefore(c.rows[j], c.rows[i])
                /\ \A y \in Candidates(c) \ Range(c.rows) : ~SortsBefore(y, c.rows[i])

\* get_many with limit 1 has returned the later of two matching rows.
C9_Witness ==
    /\ last[1].op = "get_many" /\ last[1].args.limit = 1
    /\ Cardinality(Candidates(last[1])) = 2
    /\ Len(last[1].results) = 1
    /\ \E y \in Candidates(last[1]) : SortsBefore(last[1].rows[1], y)

\* The rows a call fetches are the rows its filters admit: for get_one one of
\* them if there is any, for get_many all of them when the limit allows.
FetchesFrom(c, S) ==
    /\ Range(c.rows) \subseteq S
    /\ c.op = "get_one" => (c.rows = <<>> <=> S = {})
    /\ (c.op = "get_many" /\ c.args.limit >= Cardinality(store)) => Range(c.rows) = S

\* C10 as stated: a row is a candidate iff it passes the execution-date
\* filter and every optional filter that was provided.
C10_Original ==
    last[1].op \in {"get_one", "get_many"} =>
        FetchesFrom(last[1], {x \in store : /\ DateMatches(x, last[1])
                                            /\ OptionalMatch(x, last[1], Provided)})

\* C10, amended: a row is a candidate iff it passes the execution-date filter
\* and every optional filter given a non-empty argument; an argument that is
\* None, the empty string or an empty collection excludes no row.
C10_ConjunctiveFilters ==
    last[1].op \in {"get_one", "get_many"} => FetchesFrom(last[1], Candidates(last[1]))

\* get_many, given a key, two task ids and a dag id, has returned one of two
\* rows.
C10_Witness ==
    /\ last[1].op = "get_many" /\ last[1].args.limit >= 2
    /\ Cardinality(store) = 2 /\ Len(last[1].rows) = 1
    /\ Given(last[1].args.key) /\ Given(last[1].args.dag_ids)
    /\ last[1].args.task_ids = Lst(<<"t1", "t2">>)

\* ------------------------------------------------- claims on the encoding
\* Worker w's set call passes its encode step in this step.
Encodes(w) == pc[w] = "idle" /\ pc'[w] = "insert"

C12_Original ==
    (last[1].op = "get_many" /\ last[1].args.limit <= 0) =>
        /\ last[1].ret.kind = "return"
        /\ last[1].results = <<>>

\* C12, amended: get_many with limit zero returns an empty result, whatever
\* rows match; a negative limit goes to the database as it is, which rejects
\* the statement (get_many raises) or reads it as no limit (get_many returns
\* every matching row).
C12_NonPositiveLimit ==
    /\ (last[1].op = "get_many" /\ last[1].args.limit = 0) =>
          /\ last[1].ret.kind = "return"
          /\ last[1].rows = <<>> /\ last[1].results = <<>>
    /\ (last[1].op = "get_many" /\ last[1].args.limit < 0) =>
          \/ last[1].ret = Raise("DataError") /\ last[1].results = <<>>
          \/ /\ last[1].ret.kind = "return"
             /\ Range(last[1].rows) = Candidates(last[1])
             /\ Len(last[1].results) = Cardinality(Candidates(last[1]))

\* get_many with limit zero has returned nothing although rows match.
C12_Witness ==
    /\ last[1].op = "get_many" /\ last[1].args.limit = 0
    /\ last[1].results = <<>> /\ Candidates(last[1]) # {}

\* --------------------------------------------- claims on set's two commits
\* C13: in a set call the DELETE of the duplicates is committed, with nothing
\* inserted, when the call passes to its INSERT; a row appears in the table
\* only in the INSERT step of a call that has done so, it is the one new row
\* with that call's natural key, and it is in the table when the call ends.
C13_DeleteCommitsBeforeInsert ==
    [][/\ \A w \in Workers :
            /\ Encodes(w) =>
                 /\ store' = store \ Live(store, NaturalKey(locals'[w]))
                 /\ locals'[w].deleted = Cardinality(store \ store')
                 /\ next_id' = next_id
            /\ Inserts(w) =>
                 \E x \in store' :
                    /\ x.id = next_id /\ store' \ store = {x}
                    /\ NaturalKey(x) = NaturalKey(last'[w].args)
                    /\ store \subseteq store'
       /\ (store' \ store # {}) => \E w \in Workers : Inserts(w)]_vars

\* A set call has deleted the row of its natural key and ended, and the row
\* it inserted is live.
C13_Witness ==
    \E w \in Workers :
        /\ pc[w] = "idle" /\ last[w].op = "set" /\ last[w].ret = Return(None)
        /\ last[w].args.deleted = 1
        /\ \E x \in Live(store, NaturalKey(last[w].args)) : x.id = next_id - 1

\* ------------------------------------------------ claims on loaded records
\* The object the payload b holds.
Held(b) == Obj(b.type, b.repr)

\* A set call that completed and the get_many call that follows it.
ListsBack == /\ pc[1] = "idle" /\ last[1].op = "set" /\ last[1].ret = Return(None)
             /\ Completes(1, "get_many")

\* C14: in non-legacy mode get_many loads every row it fetches without error,
\* rows written under pickling and rows written as JSON alike, each object
\* carrying the value its payload holds; the row of the set call just
\* completed carries the value written (under pickling) or its JSON image.
C14_FallbackOnLoad ==
    [][(Completes(1, "get_many") /\ ~enable_pickling) =>
         LET c == last'[1]
         IN /\ c.ret.kind = "return"
            /\ Len(c.results) = Len(c.rows)
            /\ \A i \in DOMAIN c.rows : c.results[i].value = Held(c.rows[i].value)
            /\ ListsBack =>
                 \A i \in DOMAIN c.rows :
                    NaturalKey(c.rows[i]) = NaturalKey(last[1].args) =>
                       c.results[i].value =
                          IF last[1].args.pickling THEN last[1].args.value
                          ELSE JsonImage(last[1].args.value)]_vars

\* get_many, in non-legacy mode, has loaded a row written under pickling and
\* a row written as JSON.
C14_Witness ==
    /\ last[1].op = "get_many" /\ last[1].ret.kind = "return" /\ ~enable_pickling
    /\ \E i, j \in DOMAIN last[1].rows :
          /\ last[1].rows[i].value.fmt = "pickle" /\ last[1].rows[j].value.fmt = "json"
          /\ last[1].results[i].value = Tuple12

\* C15 as stated: the objects get_many returns carry the bytes of their rows.
C15_Original ==
    last[1].op = "get_many" =>
        /\ last[1].ret.kind = "return"
        /\ Len(last[1].results) = Len(last[1].rows)
        /\ \A i \in DOMAIN last[1].rows : last[1].results[i].value = last[1].rows[i].value

\* C15, amended: the objects get_many returns carry their values decoded on
\* load, not the bytes of their rows: every column but value is the row's,
\* and value is the object the payload holds.  When a payload does not decode
\* (under pickling, a row written as JSON) get_many raises and returns nothing.
C15_RecordsDecoded ==
    [][Completes(1, "get_many") =>
         LET c == last'[1]
             undecodable == {i \in DOMAIN c.rows :
                               enable_pickling /\ c.rows[i].value.fmt # "pickle"}
         IN IF undecodable # {}
            THEN c.ret.kind = "raise" /\ c.results = <<>>
            ELSE /\ c.ret.kind = "return"
                 /\ Len(c.results) = Len(c.rows)
                 /\ \A i \in DOMAIN c.rows :
                      /\ c.results[i] = [c.rows[i] EXCEPT !.value = Held(c.rows[i].value)]
                      /\ c.results[i].value # c.rows[i].value]_vars

\* get_many has returned an object whose value is the dict written.
C15_Witness ==
    /\ last[1].op = "get_many" /\ last[1].ret.kind = "return"
    /\ \E i \in DOMAIN last[1].results :
          /\ last[1].results[i].value = Dict1
          /\ last[1].rows[i].value = Bytes("json", "dict", Dict1.repr)

\* ------------------------------------------------------- claims on delete
\* The ids of the rows a delete call was given.
GivenIds(c) == {as_list(c.args.xcoms)[i].id : i \in DOMAIN as_list(c.args.xcoms)}

\* C16: a delete call given one row, or a collection of rows only, returns
\* having removed exactly those rows in its one commit: none of them is in
\* the table afterwards, and every other row is, unchanged.
C16_DeleteRemovesExactlyGiven ==
    [][\A w \in Workers :
          (Completes(w, "delete") /\ offending(as_list(last'[w].args.xcoms)) = {}) =>
             /\ last'[w].ret = Return(None)
             /\ store' = {x \in store : x.id \notin GivenIds(last'[w])}]_vars

\* ------------------------------------------------- claims on set's frame
\* The rows of rows whose natural key is not k.
Others(rows, k) == {x \in rows : NaturalKey(x) # k}

\* C17: no step of a set call with natural key K (its DELETE commit, its
\* INSERT commit, its failure) removes, adds or alters a row whose natural
\* key differs from K, whatever the other workers have done in between.
C17_WriteFrame ==
    [][\A w \in Workers :
          /\ Encodes(w) =>
                Others(store', NaturalKey(locals'[w])) = Others(store, NaturalKey(locals'[w]))
          /\ (pc[w] = "insert" /\ pc'[w] = "idle") =>
                Others(store', NaturalKey(last'[w].args))
                    = Others(store, NaturalKey(last'[w].args))]_vars

\* A set call has replaced the row of its natural key while a row that
\* differs from it in the execution_date alone is live.
C17_Witness ==
    \E w \in Workers :
        /\ pc[w] = "idle" /\ last[w].op = "set" /\ last[w].ret = Return(None)
        /\ last[w].args.deleted = 1
        /\ \E x \in store :
              /\ x.execution_date # last[w].args.execution_date
              /\ x.key = last[w].args.key /\ x.task_id = last[w].args.task_id
              /\ x.dag_id = last[w].args.dag_id /\ x.id < next_id - 1

\* --------------------------------------------- claims on concurrent writers
\* The live rows with natural key k that worker w's calls inserted.
InsertedBy(w, k) ==
    {x \in Live(store, k) : init_on_load(FALSE, x.value) = Return(ValueOf(w))}

\* C18: with NumWorkers workers calling set, one call at a time each and no
\* step failing, the live rows with one natural key are never more than
\* NumWorkers, every one of them was inserted by one of the workers, and at
\* most one of them by any given worker.
C18_AtMostOnePerWorker ==
    \A k \in WriterKeys :
        /\ Cardinality(Live(store, k)) <= NumWorkers
        /\ Live(store, k) = UNION {InsertedBy(w, k) : w \in Workers}
        /\ \A w \in Workers : Cardinality(InsertedBy(w, k)) <= 1

\* Every worker has a live row with one natural key, and has inserted one
\* more row than are live.
C18_Witness ==
    \E k \in WriterKeys :
        /\ \A w \in Workers : Cardinality(InsertedBy(w, k)) = 1
        /\ Cardinality(Live(store, k)) = NumWorkers
        /\ next_id = NumWorkers + 2

====
